---- MODULE Spec2Model ----
(***************************************************************************)
(* Model of digitalFotoFrame.py: the control-file loader                   *)
(* (checkForControlFile), the folder scan (scanForFiles), the player loop  *)
(* (runFotoFrame) and the top-level script.                                *)
(*                                                                         *)
(* Numbers that the program keeps as floats (the DELAY/WAKE/SLEEP texts    *)
(* and the delay) are fixed-point integers in tenths: 35 is 3.5.  Hours    *)
(* are plain integers.  Paths and the text after "PATH=" are sequences of  *)
(* characters.                                                             *)
(***************************************************************************)
EXTENDS Integers, Sequences, FiniteSets, TLC

VARIABLES
    \* ---- runFotoFrame / top-level script
    pc,            \* position of the single control flow
    clock,         \* the wall-clock hour, datetime.datetime.now().hour
    delay,         \* seconds per picture, in tenths
    wakehour,
    bedtimehour,
    photoFolder,
    pictureFiles,  \* the list the name pictureFiles is bound to
    iter,          \* the list object the running `for fn in pictureFiles` iterates
    idx,           \* entries of iter the for loop has handed out
    lastHour,
    sleeping,
    done,
    window,        \* the cv2 window: "none", "open", "destroyed"
    ticks,         \* hour changes since the player last read the clock
    keyAt,         \* the timed wait in which the first key press arrived
    fn,            \* the loop variable of `for fn in pictureFiles`
    out,           \* what the pass through the loop body (or the start) has done
                   \* up to its timed wait: shell commands, transition prints,
                   \* control file, scan, decode, imshow
    timeout,       \* milliseconds given to the waitKey in progress, 0 if none
    wk,            \* how far the loop is from the last wake-up, see Schedule
    \* ---- the picture fit of lines 168-175 and 255-267 applied on its own
    fpc,
    frect,         \* width and height reported by getWindowImageRect
    fimg,          \* width and height of the decoded picture
    fres,          \* dims and the two borders
    \* ---- checkForControlFile applied on its own
    lpc,
    lfile,
    lprev,
    lres

\* what one pass through the loop body leaves behind
bodyVars == <<fn, out, timeout, wk>>
playerVars == <<pc, clock, delay, wakehour, bedtimehour, photoFolder, pictureFiles,
                iter, idx, lastHour, sleeping, done, window, ticks, keyAt, bodyVars>>
loaderVars == <<lpc, lfile, lprev, lres>>
fitVars == <<fpc, frect, fimg, fres>>
vars == <<playerVars, loaderVars, fitVars>>

(***************************************************************************)
(* Bounds of the model                                                     *)
(***************************************************************************)
\* longest control file handed to checkForControlFile on its own
MaxLines == 5
\* hour boundaries that may pass between two readings of the clock by the player
\* loop (lines 184 and 198); a timed wait lasts 300 seconds at most
MaxTicks == 1

Hours == 0 .. 23

(***************************************************************************)
(* Helpers                                                                 *)
(***************************************************************************)
Max2(a, b) == IF b > a THEN b ELSE a
Min2(a, b) == IF b < a THEN b ELSE a

\* Python int() of a float: truncation towards zero, result in whole units
IntOf(x) == IF x >= 0 THEN x \div 10 ELSE -((-x) \div 10)

DropLast(s) == IF Len(s) = 0 THEN s ELSE SubSeq(s, 1, Len(s) - 1)

(***************************************************************************)
(* checkForControlFile                                                     *)
(***************************************************************************)
\* the literals of lines 108-121 in tenths, and the full bit mask of line 131
DelayMin == 10
DelayMax == 600
WakeMin == 0
WakeMax == 100
SleepMin == 0
SleepMax == 230
AllKeys == 15

NumLine(k, n) == [key |-> k, ok |-> TRUE, num |-> n, rest |-> <<>>]
BadLine(k) == [key |-> k, ok |-> FALSE, num |-> 0, rest |-> <<>>]
PathLine(r) == [key |-> "PATH", ok |-> TRUE, num |-> 0, rest |-> r]
OtherLine == [key |-> "OTHER", ok |-> TRUE, num |-> 0, rest |-> <<>>]

TextFile(ls) == [readable |-> TRUE, lines |-> ls]
NoFile == [readable |-> FALSE, lines |-> <<>>]

\* readparams | bit
BitOr(r, bit) == IF (r \div bit) % 2 = 1 THEN r ELSE r + bit

\* float(...) raises ValueError on a text that is no number
FloatRaises(line) == line.key \in {"DELAY", "WAKE", "SLEEP"} /\ ~line.ok

ClampDelay(x) == Min2(DelayMax, Max2(DelayMin, x))
\* ClampWake with the upper limit of the SLEEP line
ClampWake_SleepLimit(x) == Min2(SleepMax, Max2(WakeMin, x))

ClampWake(x) == Min2(WakeMax, Max2(WakeMin, x))
ClampSleep(x) == Min2(SleepMax, Max2(SleepMin, x))

\* the body of `for line in finp` for one line that does not raise
ProcessLine(st, line) ==
    CASE line.key = "DELAY" ->
            [st EXCEPT !.delay = ClampDelay(line.num),
                       !.readparams = BitOr(st.readparams, 1)]
      [] line.key = "WAKE" ->
            [st EXCEPT !.wakeHour = IntOf(ClampWake(line.num)),
                       !.readparams = BitOr(st.readparams, 2)]
      [] line.key = "SLEEP" ->
            [st EXCEPT !.bedtimeHour = IntOf(ClampSleep(line.num)),
                       !.readparams = BitOr(st.readparams, 4)]
      [] line.key = "PATH" ->
            [st EXCEPT !.photoFolder = DropLast(line.rest),
                       !.readparams = BitOr(st.readparams, 8)]
      [] OTHER -> st

\* the for loop inside try/except: the first line that raises ends the reading
RECURSIVE ReadLines(_, _)
ReadLines(lines, st) ==
    IF lines = <<>> THEN st
    ELSE IF FloatRaises(Head(lines)) THEN st
    ELSE ReadLines(Tail(lines), ProcessLine(st, Head(lines)))

ValidRead(readparams) == readparams = AllKeys

checkForControlFile(file, d, w, b, p) ==
    LET st0 == [delay |-> d, wakeHour |-> w, bedtimeHour |-> b, photoFolder |-> p,
                readparams |-> 0]
        st == IF file.readable THEN ReadLines(file.lines, st0) ELSE st0
    IN  [delay |-> st.delay, wakeHour |-> st.wakeHour, bedtimeHour |-> st.bedtimeHour,
         photoFolder |-> st.photoFolder, ok |-> ValidRead(st.readparams)]

(***************************************************************************)
(* scanForFiles and random.shuffle.  The folder tree is an input: a scan   *)
(* raises when the folder cannot be read and otherwise returns the jpg/png *)
(* files that exist under it at that moment.                               *)
(***************************************************************************)
Pictures == {<<"A", "/", "1">>, <<"A", "/", "2">>, <<"B", "/", "1">>}

FilesUnder(folder) ==
    {p \in Pictures : /\ Len(p) > Len(folder) + 1
                      /\ SubSeq(p, 1, Len(folder)) = folder
                      /\ p[Len(folder) + 1] = "/"}

scanForFiles(folder) ==
    {[raised |-> TRUE, files |-> {}]}
    \cup {[raised |-> FALSE, files |-> S] : S \in SUBSET FilesUnder(folder)}

Shuffles(S) ==
    {s \in [1 .. Cardinality(S) -> S] : \A i, j \in 1 .. Cardinality(S) : s[i] = s[j] => i = j}

(***************************************************************************)
(* The control files the running player meets                              *)
(***************************************************************************)
CfDay ==
    TextFile(<<NumLine("DELAY", 35), NumLine("WAKE", 70), NumLine("SLEEP", 210),
               PathLine(<<"A", "\n">>)>>)
CfOff ==
    TextFile(<<NumLine("DELAY", 20), NumLine("WAKE", 90), NumLine("SLEEP", 90),
               PathLine(<<"B", "\n">>)>>)
CfPartial == TextFile(<<NumLine("DELAY", 50), NumLine("WAKE", 30)>>)

CfNight ==
    TextFile(<<NumLine("DELAY", 20), NumLine("WAKE", 90), NumLine("SLEEP", 50),
               PathLine(<<"B", "\n">>)>>)

PlayerFiles == {CfDay, CfOff, CfNight, CfPartial, NoFile}

\* lines 320-323: the default parameter values of the script
DefaultConfig ==
    [delay |-> 40, wakeHour |-> 7, bedtimeHour |-> 21, photoFolder |-> <<"H">>]

\* value of fres before a picture has been fitted
NoFit == [dims |-> <<0, 0>>, widborder |-> 0, hgtborder |-> 0]

\* value of lres before checkForControlFile has returned
NoResult ==
    [delay |-> 0, wakeHour |-> 0, bedtimeHour |-> 0, photoFolder |-> <<>>, ok |-> FALSE]

(***************************************************************************)
(* Top-level script                                                        *)
(***************************************************************************)
Init ==
    /\ pc = "main"
    /\ clock \in Hours
    /\ delay = DefaultConfig.delay /\ wakehour = DefaultConfig.wakeHour
    /\ bedtimehour = DefaultConfig.bedtimeHour /\ photoFolder = DefaultConfig.photoFolder
    /\ pictureFiles = <<>> /\ iter = <<>> /\ idx = 0
    /\ lastHour = 0 /\ sleeping = FALSE /\ done = FALSE
    /\ window = "none" /\ ticks = 0 /\ keyAt = "none"
    /\ fn = <<>> /\ out = <<>> /\ timeout = 0 /\ wk = "none"
    /\ lpc = "off" /\ lfile = NoFile /\ lprev = DefaultConfig /\ lres = NoResult
    /\ fpc = "off" /\ frect = <<0, 0>> /\ fimg = <<0, 0>> /\ fres = NoFit

\* line 160: the program runs on Linux (a Raspberry Pi), where sys.platform does
\* not start with 'win'
isWindows == FALSE

\* `if not isWindows: os.system(cmd)`
Xset(cmd) == IF isWindows THEN <<>> ELSE <<cmd>>

\* lines 334-348: read the configuration; run the player only when it was read
Main ==
    /\ pc = "main"
    /\ \E f \in PlayerFiles :
         LET result == checkForControlFile(f, delay, wakehour, bedtimehour, photoFolder)
         IN  IF result.ok
             THEN /\ delay' = result.delay
                  /\ wakehour' = result.wakeHour
                  /\ bedtimehour' = result.bedtimeHour
                  /\ photoFolder' = result.photoFolder
                  /\ pc' = "run"
             ELSE /\ pc' = "exit"
                  /\ UNCHANGED <<delay, wakehour, bedtimehour, photoFolder>>
    /\ UNCHANGED <<clock, pictureFiles, iter, idx, lastHour, sleeping, done, window, keyAt,
                   ticks, loaderVars, fitVars,
                   bodyVars>>

(***************************************************************************)
(* runFotoFrame                                                            *)
(***************************************************************************)
\* AfterScanError with the exception caught and the loop going on
AfterScanError_Caught == "for"

\* lines 61 and 179, 217: nothing catches an exception of the scan
AfterScanError == "crashed"

\* lines 164-188: open the window, first scan and shuffle, initialise
Start ==
    /\ pc = "run"
    /\ window' = "open"
    /\ \E scan \in scanForFiles(photoFolder) :
         IF scan.raised
         THEN /\ pc' = AfterScanError
              /\ out' = <<"scanForFiles raised">>
              /\ UNCHANGED <<pictureFiles, lastHour>>
         ELSE /\ pictureFiles' \in Shuffles(scan.files)
              /\ lastHour' = clock
              /\ out' = <<"scanForFiles">> \o Xset("xset s off")
              /\ pc' = "while"
    /\ sleeping' = FALSE
    /\ done' = FALSE
    /\ ticks' = 0
    /\ UNCHANGED <<fn, timeout, wk>>
    /\ UNCHANGED <<clock, delay, wakehour, bedtimehour, photoFolder, iter, idx, keyAt,
                   loaderVars, fitVars>>

\* WhileTest that never ends the loop
WhileTest_Forever(d) == TRUE

\* line 191: `while not done`
WhileTest(d) == ~d

\* line 191 and the start of the for statement of line 195, which takes the
\* list pictureFiles is bound to at that moment
LoopTest ==
    /\ pc = "while"
    /\ IF ~WhileTest(done)
       THEN pc' = "destroy" /\ UNCHANGED <<iter, idx>>
       ELSE pc' = "for" /\ iter' = pictureFiles /\ idx' = 0
    /\ UNCHANGED <<clock, delay, wakehour, bedtimehour, photoFolder, pictureFiles,
                   lastHour, sleeping, done, window, keyAt, ticks, loaderVars, fitVars,
                   bodyVars>>

\* line 195: the list is exhausted
ForExhausted ==
    /\ pc = "for"
    /\ idx = Len(iter)
    /\ pc' = "while"
    /\ UNCHANGED <<clock, delay, wakehour, bedtimehour, photoFolder, pictureFiles, iter,
                   idx, lastHour, sleeping, done, window, keyAt, ticks, loaderVars, fitVars,
                   bodyVars>>

\* HourlyDue without the test of the sleeping flag
HourlyDue_AlsoAsleep(hour, last, asleep) == hour # last

\* line 204
HourlyDue(hour, last, asleep) == hour # last /\ ~asleep

\* InAwakeWindow with the bedtime hour still awake
InAwakeWindow_Inclusive(hour, wake, bedtime) == hour >= wake /\ hour <= bedtime

\* line 225
InAwakeWindow(hour, wake, bedtime) == hour >= wake /\ hour < bedtime

\* Reload that takes the delay of an unsuccessful read
Reload_DelayAlways(result, d, w, b, p) ==
    [delay |-> result.delay,
     wakeHour |-> IF result.ok THEN result.wakeHour ELSE w,
     bedtimeHour |-> IF result.ok THEN result.bedtimeHour ELSE b,
     photoFolder |-> IF result.ok THEN result.photoFolder ELSE p]

\* lines 211-215: the four values are taken from a successful read only
Reload(result, d, w, b, p) ==
    IF result.ok
    THEN [delay |-> result.delay, wakeHour |-> result.wakeHour,
          bedtimeHour |-> result.bedtimeHour, photoFolder |-> result.photoFolder]
    ELSE [delay |-> d, wakeHour |-> w, bedtimeHour |-> b, photoFolder |-> p]

\* lines 205-219: the hourly tasks with control file f and scan outcome scan;
\* an exception of the scan ends the process
HourlyTasks(hour, f, scan) ==
    LET result == checkForControlFile(f, delay, wakehour, bedtimehour, photoFolder)
        cfg == Reload(result, delay, wakehour, bedtimehour, photoFolder)
    IN  /\ lastHour' = hour
        /\ delay' = cfg.delay
        /\ wakehour' = cfg.wakeHour
        /\ bedtimehour' = cfg.bedtimeHour
        /\ photoFolder' = cfg.photoFolder
        /\ scan \in scanForFiles(cfg.photoFolder)
        /\ IF scan.raised
           THEN UNCHANGED pictureFiles
           ELSE pictureFiles' \in Shuffles(scan.files)

\* the timeout of line 291 in milliseconds
SleepWaitMs == 300000

\* lines 229-233: what the loop does when it finds itself awake after sleeping
WakeUp(asleep) ==
    IF asleep
    THEN <<"Wake up">> \o Xset("xset s off") \o Xset("xset dpms force on")
    ELSE <<>>

\* lines 285-289: what the loop does when it finds itself outside the window
GoToSleep(asleep) ==
    (IF asleep THEN <<>> ELSE <<"Going to sleep">>) \o Xset("xset dpms force standby")

\* AfterDecode without the continue of line 247
AfterDecode_NoContinue(decoded) == "waitAwake"

\* lines 246-247: `if not gotImg: continue`
AfterDecode(decoded) == IF decoded THEN "waitAwake" ELSE "for"

\* wk after a pass of the loop body: "wokeShown" and "wokeBlank" after the pass
\* that turned sleeping from True to False (with and without a picture),
\* "stillBlank" while no picture has been shown since, "none" otherwise
SinceWake(w, asleep, awake, shown) ==
    IF ~awake THEN "none"
    ELSE IF asleep THEN (IF shown THEN "wokeShown" ELSE "wokeBlank")
    ELSE IF ~shown /\ w \in {"wokeBlank", "stillBlank"} THEN "stillBlank"
    ELSE "none"

\* lines 225-291: wake or sleep, then a picture or the long wait; before is what
\* the pass has done so far
Schedule(hour, decoded, before) ==
    IF InAwakeWindow(hour, wakehour', bedtimehour')
    THEN LET to == AfterDecode(decoded)
         IN  /\ sleeping' = FALSE
             /\ pc' = to
             /\ out' = before \o WakeUp(sleeping)
                        \o <<IF decoded THEN "imread" ELSE "imread failed">>
                        \o (IF to = "waitAwake" THEN <<"imshow">> ELSE <<>>)
             /\ timeout' = IF to = "waitAwake" THEN delay' * 100 ELSE 0
             /\ wk' = SinceWake(wk, sleeping, TRUE, to = "waitAwake")
    ELSE /\ sleeping' = TRUE
         /\ pc' = "waitAsleep"
         /\ out' = before \o GoToSleep(sleeping)
         /\ timeout' = SleepWaitMs
         /\ wk' = SinceWake(wk, sleeping, FALSE, FALSE)

AllScans == UNION {scanForFiles(<<d>>) : d \in {"A", "B", "H"}}

\* lines 206-219: what the hourly tasks do besides the assignments
HourlyOut(scan) ==
    Xset("xset s off") \o <<"checkForControlFile">>
        \o <<IF scan.raised THEN "scanForFiles raised" ELSE "scanForFiles">>

\* CurrentList that follows the name pictureFiles
CurrentList_Rebound(it, pf) == pf

\* line 195: the for statement keeps the list object it started with
CurrentList(it, pf) == it

\* lines 195-291: one entry of the list, up to the next timed wait, to the
\* `continue` of line 247 or to the exception of a scan
Visit ==
    /\ pc = "for"
    /\ idx < Len(CurrentList(iter, pictureFiles))
    /\ idx' = idx + 1
    /\ fn' = CurrentList(iter, pictureFiles)[idx + 1]
    /\ \E decoded \in BOOLEAN :
         IF HourlyDue(clock, lastHour, sleeping)
         THEN \E f \in PlayerFiles, scan \in AllScans :
                /\ HourlyTasks(clock, f, scan)
                /\ IF scan.raised
                   THEN /\ pc' = AfterScanError
                        /\ out' = Xset("xset dpms force on") \o HourlyOut(scan)
                        /\ timeout' = 0
                        /\ wk' = "none"
                        /\ UNCHANGED sleeping
                   ELSE Schedule(clock, decoded,
                                 Xset("xset dpms force on") \o HourlyOut(scan))
         ELSE /\ UNCHANGED <<delay, wakehour, bedtimehour, photoFolder, pictureFiles,
                             lastHour>>
              /\ Schedule(clock, decoded, Xset("xset dpms force on"))
    /\ ticks' = 0
    /\ UNCHANGED <<clock, iter, done, window, keyAt, loaderVars, fitVars>>

\* AfterKeyAwake without the break
AfterKeyAwake_NoBreak == "for"

\* line 281: a key during the wait of line 276 leaves the for loop
AfterKeyAwake == "while"

\* lines 293-294: a key during the wait of line 291 sets done; the for loop goes on
AfterKeyAsleep == "for"

\* lines 276-281, no key within delay seconds
AwakeTimeout ==
    /\ pc = "waitAwake"
    /\ pc' = "for"
    /\ out' = <<>>
    /\ timeout' = 0
    /\ UNCHANGED <<clock, delay, wakehour, bedtimehour, photoFolder, pictureFiles, iter,
                   idx, lastHour, sleeping, done, window, keyAt, ticks, loaderVars, fitVars,
                   fn, wk>>

\* lines 276-281, a key within delay seconds
AwakeKey ==
    /\ pc = "waitAwake"
    /\ done' = TRUE
    /\ pc' = AfterKeyAwake
    /\ keyAt' = IF keyAt = "none" THEN "awake" ELSE keyAt
    /\ out' = <<>>
    /\ timeout' = 0
    /\ UNCHANGED <<clock, delay, wakehour, bedtimehour, photoFolder, pictureFiles, iter,
                   idx, lastHour, sleeping, window, ticks, loaderVars, fitVars,
                   fn, wk>>

\* lines 291-294, no key within 300 seconds
AsleepTimeout ==
    /\ pc = "waitAsleep"
    /\ pc' = "for"
    /\ out' = <<>>
    /\ timeout' = 0
    /\ UNCHANGED <<clock, delay, wakehour, bedtimehour, photoFolder, pictureFiles, iter,
                   idx, lastHour, sleeping, done, window, keyAt, ticks, loaderVars, fitVars,
                   fn, wk>>

\* lines 291-294, a key within 300 seconds
AsleepKey ==
    /\ pc = "waitAsleep"
    /\ done' = TRUE
    /\ pc' = AfterKeyAsleep
    /\ keyAt' = IF keyAt = "none" THEN "asleep" ELSE keyAt
    /\ out' = <<>>
    /\ timeout' = 0
    /\ UNCHANGED <<clock, delay, wakehour, bedtimehour, photoFolder, pictureFiles, iter,
                   idx, lastHour, sleeping, window, ticks, loaderVars, fitVars,
                   fn, wk>>

\* line 298
DestroyWindow ==
    /\ pc = "destroy"
    /\ window' = "destroyed"
    /\ pc' = "exit"
    /\ UNCHANGED <<clock, delay, wakehour, bedtimehour, photoFolder, pictureFiles, iter,
                   idx, lastHour, sleeping, done, keyAt, ticks, loaderVars, fitVars,
                   bodyVars>>

Looping == pc \in {"while", "for", "waitAwake", "waitAsleep"}

\* the loop runs on and never comes to line 198 again: no entry is left in the
\* pass and every later pass is over the empty list
NeverReadsClock == idx = Len(iter) /\ pictureFiles = <<>> /\ ~done

\* the wall clock passes an hour boundary
Tick ==
    /\ Looping
    /\ ticks < MaxTicks \/ NeverReadsClock
    /\ clock' = (clock + 1) % 24
    /\ ticks' = Min2(ticks + 1, MaxTicks)
    /\ UNCHANGED <<pc, delay, wakehour, bedtimehour, photoFolder, pictureFiles, iter, idx,
                   lastHour, sleeping, done, window, keyAt, loaderVars, fitVars,
                   bodyVars>>

Next ==
    \/ Main
    \/ Start
    \/ LoopTest
    \/ ForExhausted
    \/ Visit
    \/ AwakeTimeout
    \/ AwakeKey
    \/ AsleepTimeout
    \/ AsleepKey
    \/ DestroyWindow
    \/ Tick

Spec == Init /\ [][Next]_vars

\* the steps of the single control flow; a key press is an input and is not one
PlayerStep ==
    \/ Main
    \/ Start
    \/ LoopTest
    \/ ForExhausted
    \/ Visit
    \/ AwakeTimeout
    \/ AsleepTimeout
    \/ DestroyWindow

\* the control flow never stops by itself and the clock keeps running
FairSpec == Spec /\ WF_vars(PlayerStep) /\ WF_vars(Tick)

(***************************************************************************)
(* checkForControlFile applied on its own to every control file of at most *)
(* MaxLines lines over LoaderLines, and to a file that cannot be opened.   *)
(***************************************************************************)
LoaderLines ==
    {NumLine("DELAY", 5), NumLine("DELAY", 35), BadLine("DELAY"),
     NumLine("WAKE", 67), NumLine("WAKE", 110),
     NumLine("SLEEP", -10), NumLine("SLEEP", 240),
     PathLine(<<"A", "\n">>), PathLine(<<"A", "B">>),
     OtherLine}

\* the contents of the files of n lines
LoaderTexts(n) == [1 .. n -> LoaderLines]

LoaderPrevs == {DefaultConfig}

PlayerOff ==
    /\ pc = "off" /\ clock = 0 /\ delay = 0 /\ wakehour = 0 /\ bedtimehour = 0
    /\ photoFolder = <<>> /\ pictureFiles = <<>> /\ iter = <<>> /\ idx = 0
    /\ lastHour = 0 /\ sleeping = FALSE /\ done = FALSE /\ window = "none"
    /\ ticks = 0 /\ keyAt = "none"
    /\ fn = <<>> /\ out = <<>> /\ timeout = 0 /\ wk = "none"

FitOff == fpc = "off" /\ frect = <<0, 0>> /\ fimg = <<0, 0>> /\ fres = NoFit

LoaderInit ==
    /\ PlayerOff
    /\ FitOff
    /\ lpc = "call"
    /\ \/ lfile = NoFile
       \/ \E n \in 0 .. MaxLines : \E ls \in LoaderTexts(n) : lfile = TextFile(ls)
    /\ lprev \in LoaderPrevs
    /\ lres = NoResult

LoaderCall ==
    /\ lpc = "call"
    /\ lres' = checkForControlFile(lfile, lprev.delay, lprev.wakeHour,
                                    lprev.bedtimeHour, lprev.photoFolder)
    /\ lpc' = "returned"
    /\ UNCHANGED <<lfile, lprev, playerVars, fitVars>>

LoaderNext == LoaderCall

LoaderSpec == LoaderInit /\ [][LoaderNext]_vars

(***************************************************************************)
(* The picture fit of runFotoFrame applied on its own: the screen size of  *)
(* lines 168-175 and the resize and border sizes of lines 255-267.  The    *)
(* program computes in floats; for the screens and picture sizes below the *)
(* float quotients and products give the same integers as the exact        *)
(* arithmetic used here.                                                   *)
(***************************************************************************)
\* width and height that getWindowImageRect reports
FitRects == {<<1920, 1080>>, <<800, 600>>, <<320, 240>>, <<-1, -1>>}

\* widths and heights of decoded pictures
FitWidths == {640, 1000, 1920, 3000, 4032}
FitHeights == {480, 700, 1080, 2000, 3024}

\* lines 173-175: a rect below 640 x 480 is taken to be nonsense
Geometry(rect) == IF rect[2] < 480 \/ rect[1] < 640 THEN <<1920, 1080>> ELSE rect

\* lines 255-258: ratio = min(wid/w, hgt/h), dims = (int(ratio*w), int(ratio*h));
\* int() drops the fraction
FitDims(wid, hgt, w, h) ==
    IF wid * h <= hgt * w
    THEN <<wid, (wid * h) \div w>>
    ELSE <<(hgt * w) \div h, hgt>>

\* lines 266-267: max(1, int((size - resized) / 2))
Border(size, resized) == Max2(1, (size - resized) \div 2)

\* lines 168-175 and 255-267
FitImage(rect, img) ==
    LET scr == Geometry(rect)
        dims == FitDims(scr[1], scr[2], img[1], img[2])
    IN  [dims |-> dims,
         widborder |-> Border(scr[1], dims[1]),
         hgtborder |-> Border(scr[2], dims[2])]

LoaderOff == lpc = "off" /\ lfile = NoFile /\ lprev = DefaultConfig /\ lres = NoResult

FitInit ==
    /\ PlayerOff
    /\ LoaderOff
    /\ fpc = "call"
    /\ frect \in FitRects
    /\ fimg \in FitWidths \X FitHeights
    /\ fres = NoFit

FitCall ==
    /\ fpc = "call"
    /\ fres' = FitImage(frect, fimg)
    /\ fpc' = "fitted"
    /\ UNCHANGED <<frect, fimg, playerVars, loaderVars>>

FitNext == FitCall

FitSpec == FitInit /\ [][FitNext]_vars

(***************************************************************************)
(* Properties                                                              *)
(***************************************************************************)
Config == <<delay, wakehour, bedtimehour, photoFolder>>

\* a step of the loop that handles one entry of the list (line 195 onwards)
VisitStep == pc = "for" /\ idx' = idx + 1

\* a step that puts a picture on the screen (line 273)
ShowStep == pc # "waitAwake" /\ pc' = "waitAwake"

\* a step that starts one of the two timed waits (lines 276 and 291)
WaitStep == pc \notin {"waitAwake", "waitAsleep"} /\ pc' \in {"waitAwake", "waitAsleep"}

\* a step that runs the hourly tasks (lines 205-219)
RefreshStep == pc = "for" /\ lastHour' # lastHour

AtWait == pc \in {"waitAwake", "waitAsleep"}

\* C1: after a key press during the 300 second wait no further entry of the list
\* is handled, no timed wait is started and no picture is shown; the loop only
\* goes on to destroy the window.
C1_AsleepKeyEndsLoop ==
    [][keyAt = "asleep" => ~VisitStep /\ ~WaitStep /\ ~ShowStep]_vars

\* C2: whatever the list holds, a player inside the loop comes to one of the
\* two timed waits again and again, or has left the loop.
C2_AlwaysReachesWait ==
    [](Looping /\ ~done => <>(AtWait \/ ~Looping))

\* C3: after a key press during the wait that follows a picture no entry is
\* handled, nothing is shown, no hourly task runs, no wait starts, and the
\* window gets destroyed.
C3_AwakeKeyEndsLoop ==
    /\ [][keyAt = "awake" =>
            /\ ~VisitStep /\ ~WaitStep /\ ~ShowStep /\ ~RefreshStep
            /\ pc' \in {"while", "destroy", "exit"}
            /\ UNCHANGED <<Config, pictureFiles, lastHour, sleeping, done>>]_vars
    /\ (keyAt = "awake") ~> (window = "destroyed")

C3_Witness == keyAt = "awake" /\ window = "destroyed" /\ idx < Len(iter)

\* C4: every evaluation of the wake/sleep test leaves sleeping false exactly
\* when wakehour <= hour < bedtimehour for the values then in effect, and a
\* picture is shown only in such an hour (never when wakehour = bedtimehour).
C4_AwakeExactlyInWindow ==
    [][/\ (VisitStep /\ pc' # "crashed" =>
              (sleeping' <=> ~(wakehour' <= clock /\ clock < bedtimehour')))
       /\ (ShowStep => wakehour' <= clock /\ clock < bedtimehour' /\ ~sleeping')]_vars

C4_Witness ==
    /\ pc = "waitAsleep" /\ ticks = 0 /\ sleeping
    /\ clock = 21 /\ wakehour = 7 /\ bedtimehour = 21

\* C5: inside the loop the hourly tasks run only when the player is not
\* sleeping and the hour differs from lastHour; while it sleeps, lastHour, the
\* four configuration values and the list stay as they are.
C5_RefreshOnlyAwake ==
    [][Looping /\ <<lastHour, Config, pictureFiles>>' # <<lastHour, Config, pictureFiles>>
          => ~sleeping /\ clock # lastHour /\ lastHour' = clock]_vars

C5_Witness ==
    pc = "waitAsleep" /\ ticks = 0 /\ sleeping /\ clock # lastHour /\ idx > 1

\* C6: while the player is awake inside the loop, an hour that differs from
\* lastHour is followed by a reading of the clock that runs the hourly tasks
\* (unless the loop ends or a key is pressed first).
C6_HourChangeLeadsToRefresh ==
    (Looping /\ ~done /\ ~sleeping /\ wakehour <= clock /\ clock < bedtimehour
         /\ clock # lastHour)
        ~> ((ticks = 0 /\ lastHour = clock) \/ ~Looping \/ done)

\* ---- checkForControlFile on its own
HasKey(file, k) == \E i \in 1 .. Len(file.lines) : file.lines[i].key = k

HasAllKeys(file) == \A k \in {"DELAY", "WAKE", "SLEEP", "PATH"} : HasKey(file, k)

Malformed(file) ==
    \E i \in 1 .. Len(file.lines) :
        file.lines[i].key \in {"DELAY", "WAKE", "SLEEP"} /\ ~file.lines[i].ok

\* the number on the last line of the file that starts with key k
LastNum(file, k) ==
    LET last == CHOOSE i \in 1 .. Len(file.lines) :
                    /\ file.lines[i].key = k
                    /\ \A j \in (i + 1) .. Len(file.lines) : file.lines[j].key # k
    IN  file.lines[last].num

\* x limited to lo .. hi, in tenths
Limited(x, lo, hi) == IF x < lo THEN lo ELSE IF x > hi THEN hi ELSE x

PrevValues == <<lprev.delay, lprev.wakeHour, lprev.bedtimeHour, lprev.photoFolder>>
ResValues == <<lres.delay, lres.wakeHour, lres.bedtimeHour, lres.photoFolder>>

\* C7: for a control file that cannot be read or lacks one of the four keys the
\* result is invalid and its four values are the previous values.
C7_FailedReloadReturnsPrevious ==
    lpc = "returned" /\ (~lfile.readable \/ ~HasAllKeys(lfile))
        => ~lres.ok /\ ResValues = PrevValues

\* C8: a control file with a DELAY, WAKE or SLEEP line that is no number gives
\* an invalid result, wherever that line is.
C8_MalformedIsInvalid ==
    lpc = "returned" /\ lfile.readable /\ Malformed(lfile) => ~lres.ok

Loaded(f) ==
    LET r == checkForControlFile(f, delay, wakehour, bedtimehour, photoFolder)
    IN  <<r.delay, r.wakeHour, r.bedtimeHour, r.photoFolder>>

Readable(f) ==
    checkForControlFile(f, delay, wakehour, bedtimehour, photoFolder).ok

\* cat lists files under folder, each once
CatalogOf(cat, folder) ==
    /\ \A i \in 1 .. Len(cat) : cat[i] \in FilesUnder(folder)
    /\ \A i, j \in 1 .. Len(cat) : cat[i] = cat[j] => i = j

\* C10: one run of the hourly tasks either replaces all four configuration
\* values by the values of a valid control file or leaves all four as they
\* were; it sets lastHour to the hour, and the list it leaves is a scan of the
\* folder then in effect.
C10_RefreshPostcondition ==
    [][RefreshStep =>
          /\ \/ Config' = Config
             \/ \E f \in PlayerFiles : Readable(f) /\ Config' = Loaded(f)
          /\ lastHour' = clock
          /\ pc' # "crashed" => CatalogOf(pictureFiles', photoFolder')]_vars

C10_Witness ==
    /\ pc = "waitAwake" /\ ticks = 0 /\ lastHour = clock
    /\ photoFolder = <<"A">> /\ delay = 35
    /\ pictureFiles = <<<<"A", "/", "2">>, <<"A", "/", "1">>>>
    /\ iter = <<<<"B", "/", "1">>>>

\* ---- what a pass through the loop body does
\* the step does x: a shell command, a print, a call
Does(x) == \E i \in 1 .. Len(out') : out'[i] = x

\* how many times the step does x
Times(x) == Cardinality({i \in 1 .. Len(out') : out'[i] = x})

\* C11: the entry actions of going to sleep (the command that puts the display
\* on standby and the print) and of waking up (the command that forces the
\* display on and the print) are done by the evaluation that changes sleeping,
\* and by no evaluation that leaves sleeping as it was.
C11_EntryActionsOnce ==
    [][VisitStep /\ pc' # "crashed" =>
          /\ (~sleeping /\ sleeping' =>
                 Does("Going to sleep") /\ Does("xset dpms force standby"))
          /\ (sleeping /\ ~sleeping' =>
                 Does("Wake up") /\ Does("xset dpms force on"))
          /\ (sleeping /\ sleeping' =>
                 ~Does("Going to sleep") /\ ~Does("xset dpms force standby"))
          /\ (~sleeping /\ ~sleeping' =>
                 ~Does("Wake up") /\ ~Does("xset dpms force on"))]_vars

\* C13: while awake, an entry that fails to decode is followed by no imshow and
\* no timed wait, and the loop is at the for statement again; an entry that
\* decodes is followed by one imshow and the wait of delay seconds.
C13_DecodeFailureNoPause ==
    [][VisitStep =>
          /\ (Does("imread failed") =>
                 /\ ~Does("imshow") /\ ~ShowStep /\ ~WaitStep
                 /\ timeout' = 0 /\ pc' = "for")
          /\ (Does("imread") =>
                 /\ Times("imshow") = 1 /\ ShowStep
                 /\ timeout' = delay' * 100 /\ pc' = "waitAwake")
          /\ Times("imread") + Times("imread failed") <= 1]_vars

C13_Witness ==
    /\ pc = "for" /\ idx = 1 /\ Len(iter) = 2 /\ ~sleeping
    /\ out = <<"xset dpms force on", "imread failed">>

\* C14: the command that forces the display on is given only by an evaluation
\* that is awake and has decoded its entry; never by one whose entry fails to
\* decode and never by one that ends in the 300 second wait.
C14_ForceOnOnlyAfterDecode ==
    [][VisitStep /\ Does("xset dpms force on") =>
          Does("imread") /\ ~sleeping' /\ pc' = "waitAwake"]_vars

\* ---- the picture fit
\* n/d rounded to the nearest integer, for n >= 0 and d > 0
Round(n, d) == (2 * n + d) \div (2 * d)

\* round(scale * side) for scale = min(W/w, H/h)
Rounded(W, H, w, h, side) ==
    IF W * h <= H * w THEN Round(W * side, w) ELSE Round(H * side, h)

\* C12: for a screen W x H and a picture w x h the resized picture is
\* round(scale*w) x round(scale*h) with scale = min(W/w, H/h), and the borders
\* are max(1, floor((W - resized width)/2)) and max(1, floor((H - resized
\* height)/2)).
C12_ImageFit ==
    fpc = "fitted" =>
        LET W == Geometry(frect)[1]
            H == Geometry(frect)[2]
            rw == Rounded(W, H, fimg[1], fimg[2], fimg[1])
            rh == Rounded(W, H, fimg[1], fimg[2], fimg[2])
        IN  /\ fres.dims = <<rw, rh>>
            /\ fres.widborder = Max2(1, (W - rw) \div 2)
            /\ fres.hgtborder = Max2(1, (H - rh) \div 2)

\* ---- the PATH line
\* the text after "PATH=" on the last line of the file that starts with it
LastRest(file) ==
    LET last == CHOOSE i \in 1 .. Len(file.lines) :
                    /\ file.lines[i].key = "PATH"
                    /\ \A j \in (i + 1) .. Len(file.lines) : file.lines[j].key # "PATH"
    IN  file.lines[last].rest

\* r without its trailing newline, if it has one
StripNewline(r) == IF Len(r) > 0 /\ r[Len(r)] = "\n" THEN DropLast(r) ELSE r

\* only the last line of a text file can lack the newline
OnlyLastLineOpen(file) ==
    \A i \in 1 .. Len(file.lines) - 1 :
        file.lines[i].key = "PATH" =>
            file.lines[i].rest # <<>> /\ file.lines[i].rest[Len(file.lines[i].rest)] = "\n"

\* C15: the folder returned for a control file with a PATH line is the text
\* after "PATH=" of that line without its trailing newline and otherwise
\* unchanged, also when the line is the last of the file and has no newline.
C15_PathVerbatim ==
    lpc = "returned" /\ lfile.readable /\ ~Malformed(lfile) /\ HasKey(lfile, "PATH")
            /\ OnlyLastLineOpen(lfile)
        => lres.photoFolder = StripNewline(LastRest(lfile))

\* ---- the scan
\* C16: when a scan raises, at the start or in the hourly tasks, the list is not
\* replaced (by an empty list or any other), the player does not go on with
\* the list it had, and the process ends there: no step follows, so no picture
\* and no wait.
C16_UnreadableRootIsFatal ==
    [][/\ (Does("scanForFiles raised") /\ out' # out =>
              /\ pc' = "crashed" /\ pictureFiles' = pictureFiles
              /\ ~ShowStep /\ ~WaitStep)
       /\ (pc = "crashed" => UNCHANGED vars)]_vars

C16_Witness ==
    /\ pc = "crashed" /\ window = "open" /\ idx = 1
    /\ photoFolder = <<"B">>
    /\ pictureFiles = <<<<"A", "/", "1">>, <<"A", "/", "2">>>>
    /\ out = <<"xset dpms force on", "xset s off", "checkForControlFile",
               "scanForFiles raised">>

\* ---- the pass over the list
\* C17: inside a pass the list being handed out does not change, whatever the
\* hourly tasks do to pictureFiles: each evaluation takes the next entry of the
\* list the pass started with; a list made by the hourly tasks is taken up by
\* the for statement only when the next pass starts.
C17_RefreshKeepsPass ==
    [][/\ (VisitStep => idx < Len(iter) /\ fn' = iter[idx + 1] /\ iter' = iter)
       /\ (iter' # iter => pc = "while" /\ pc' = "for")
       /\ (pc = "while" /\ pc' = "for" => iter' = pictureFiles /\ idx' = 0)]_vars

\* the hourly tasks of the first evaluation of a pass found one picture left
\* in the folder, and the second evaluation still took the second entry of the
\* list the pass started with, the picture that is gone
C17_Witness ==
    /\ pc = "for" /\ idx = 2
    /\ iter = <<<<"A", "/", "1">>, <<"A", "/", "2">>>>
    /\ fn = <<"A", "/", "2">>
    /\ pictureFiles = <<<<"A", "/", "1">>>>
    /\ out = <<"xset dpms force on", "imread failed">>

\* ---- sleeping and waking
\* C18: once the player sleeps with wakehour >= bedtimehour it sleeps in every
\* later state: no evaluation reads the control file or scans, the four values,
\* the list and lastHour stay as they are, no picture is shown, and the loop is
\* left only after a key press.
C18_PermanentSleepAbsorbing ==
    [][Looping /\ sleeping /\ wakehour >= bedtimehour =>
          /\ sleeping' /\ wakehour' >= bedtimehour'
          /\ UNCHANGED <<Config, pictureFiles, lastHour>>
          /\ (VisitStep => ~Does("checkForControlFile") /\ ~Does("scanForFiles")
                              /\ ~Does("imshow"))
          /\ ~ShowStep
          /\ (pc' \notin {"while", "for", "waitAwake", "waitAsleep"} =>
                 done /\ pc' = "destroy")]_vars

C18_Witness ==
    /\ pc = "waitAsleep" /\ sleeping /\ ~done
    /\ wakehour = 9 /\ bedtimehour = 5
    /\ iter = <<<<"B", "/", "1">>>> /\ idx = 1
    /\ ticks = 0 /\ clock # lastHour

\* the evaluation turns sleeping from True to False
WakeStep == VisitStep /\ sleeping /\ ~sleeping'

\* the evaluation that wakes the player runs no hourly tasks and finds lastHour
\* different from the hour
WakeSkipsRefresh ==
    WakeStep =>
        /\ ~Does("checkForControlFile") /\ ~Does("scanForFiles")
        /\ UNCHANGED <<Config, pictureFiles, lastHour>>
        /\ lastHour # clock

\* the evaluation after the one that woke the player runs the hourly tasks,
\* unless it puts the player to sleep again
RefreshAfterWake ==
    VisitStep /\ wk \in {"wokeShown", "wokeBlank"} /\ ~sleeping' =>
        Does("checkForControlFile") /\ lastHour' = clock

\* C19: the evaluation that wakes the player skips the hourly tasks, the first
\* picture shown after waking is shown with the four values and the list as
\* they were while sleeping, lastHour differs from the hour at the wake-up, and
\* the next evaluation that is awake runs the hourly tasks.
C19_WakeThenRefresh ==
    [][/\ WakeSkipsRefresh
       /\ (VisitStep /\ ShowStep /\ (sleeping \/ wk \in {"wokeBlank", "stillBlank"}) =>
              ~Does("checkForControlFile") /\ UNCHANGED <<Config, pictureFiles>>)
       /\ RefreshAfterWake]_vars

\* C19 for a picture shown by the waking evaluation itself: the evaluation that
\* wakes the player skips the hourly tasks, so a picture it shows is shown with
\* the four values and the list as they were while sleeping; lastHour differs
\* from the hour at the wake-up, and the next evaluation that is awake runs the
\* hourly tasks.
C19_WakeThenRefresh_Amended ==
    [][/\ WakeSkipsRefresh
       /\ (WakeStep /\ ShowStep =>
              /\ ~Does("checkForControlFile") /\ UNCHANGED <<Config, pictureFiles>>
              /\ idx < Len(iter) /\ fn' = iter[idx + 1])
       /\ RefreshAfterWake]_vars

C19_Witness ==
    /\ pc = "waitAwake" /\ wk = "wokeShown" /\ ~sleeping
    /\ ticks = 0 /\ clock = 7 /\ lastHour = 21
    /\ wakehour = 7 /\ bedtimehour = 21
    /\ out = <<"xset dpms force on", "Wake up", "xset s off", "xset dpms force on",
               "imread", "imshow">>

====
